---- MODULE Spec2Model ----
(***************************************************************************)
(* Run Lifecycle Client of vibe_core (src/src/vibe_core/vibe_core/client.py *)
(* and datamodel.py): the REST client FarmvibesAiClient, the run handle      *)
(* VibeWorkflowRun with its cached _status/_task_details/_output, and the    *)
(* two wait loops block_until_complete and monitor, against a server whose   *)
(* runs follow the run lifecycle.                                            *)
(*                                                                           *)
(* Optional values are sequences of length <= 1: <<>> is None, <<v>> is v.   *)
(***************************************************************************)
EXTENDS Integers, Sequences, FiniteSets, TLC

VARIABLES
    runs,      \* the server: sequence of run records, run id = index
    handles,   \* the client: sequence of VibeWorkflowRun objects
    observed,  \* per handle: the finished status a `status` read first returned
    call,      \* the blocking call in progress (block_until_complete, monitor)
    last       \* the operation step that ran last: requests sent, result

vars == <<runs, handles, observed, call, last>>

-----------------------------------------------------------------------------
(* Bounds of the model *)

MaxRuns == 2          \* runs the server holds
MaxHandles == 2       \* run handles the caller holds
MaxLatency == 6       \* seconds a slow HTTP status request takes
MaxBlockClock == 30   \* seconds a wait without timeout is followed
MaxMonitorClock == 150 \* seconds a monitor without timeout is followed

(* Program constants *)

wait_s == 10
DISK_FREE_THRESHOLD_BYTES == 50   \* in GiB

None == <<>>
Some(v) == <<v>>

-----------------------------------------------------------------------------
(* datamodel.py *)

RunStatus == {"pending", "queued", "running", "failed", "done", "cancelled", "cancelling"}

\* a finished that takes a run being cancelled for a finished one
finished_with_cancelling(status) == status \in {"done", "cancelled", "cancelling", "failed"}

\* RunStatus.finished
finished(status) == status \in {"done", "cancelled", "failed"}

\* RunConfigUser.finished
RunConfigUser_finished(status) == status \in {"done", "cancelled", "failed"}

(* RunBase.__post_init__: a workflow given as text that parses as JSON is
   replaced by the parsed value; other text is left as it is. Text is
   [kind |-> "text", v |-> t]; JsonTexts are the texts that parse. *)
JsonTexts == {"{wf}"}
RunBase_post_init(workflow) ==
    IF workflow.kind = "text" /\ workflow.v \in JsonTexts
    THEN [kind |-> "dict", v |-> workflow.v]
    ELSE workflow

(* SpatioTemporalJson(start_date, end_date, geojson) *)
SpatioTemporalJson(start_date, end_date, geojson) ==
    [start_date |-> start_date, end_date |-> end_date, geojson |-> geojson]

(* RunConfigInput(name, workflow, parameters, user_input), as asdict renders it *)
RunConfigInput(name, workflow, parameters, user_input) ==
    [name |-> name, workflow |-> RunBase_post_init(workflow),
     parameters |-> parameters, user_input |-> user_input]

(* RunDetails.__post_init__: textual timestamps <<"iso", n>> are parsed to n;
   absent ones stay absent. *)
Parse(text) == text[2]
RunDetails(v) ==
    [task |-> v.task,
     submission_time |-> IF v.submission_time = None THEN None
                         ELSE Some(Parse(v.submission_time[1])),
     status |-> v.status]

-----------------------------------------------------------------------------
(* The server: runs and their lifecycle (spec.md 4.3)
   pending -> queued -> running -> {done | failed},
   pending|queued|running -> cancelling -> cancelled on a cancel request. *)

RawReason == <<"E", "\\", "\\", "n">>
RawOutput == "item"
RawTasks ==
    << [task |-> "a", submission_time |-> Some(<<"iso", 2>>), status |-> "done"],
       [task |-> "b", submission_time |-> None, status |-> "pending"],
       [task |-> "c", submission_time |-> Some(<<"iso", 1>>), status |-> "done"] >>

NewRun(name, workflow, parameters) ==
    [name |-> name, workflow |-> workflow, parameters |-> parameters,
     status |-> "pending", reason |-> None, output |-> None,
     task_details |-> RawTasks]

\* the runs one lifecycle transition away from r
ServerNext(r) ==
    CASE r.status = "pending" -> {[r EXCEPT !.status = "queued"]}
      [] r.status = "queued" -> {[r EXCEPT !.status = "running"]}
      [] r.status = "running" ->
            {[r EXCEPT !.status = "done", !.output = Some(RawOutput)],
             [r EXCEPT !.status = "failed", !.reason = Some(RawReason)]}
      [] r.status = "cancelling" -> {[r EXCEPT !.status = "cancelled"]}
      [] OTHER -> {}

RECURSIVE AdvN(_, _)
AdvN(R, n) == IF n = 0 THEN R ELSE AdvN(R \cup UNION {ServerNext(x) : x \in R}, n - 1)
\* the runs r may have become by the time the next request of a handler arrives
Adv(r) == AdvN({r}, 4)

\* POST v0/runs/{id}/cancel
CancelEffect(r) ==
    IF r.status \in {"pending", "queued", "running"}
    THEN [r EXCEPT !.status = "cancelling"] ELSE r

\* GET v0/system-metrics: "disk_free" absent, or a number of GiB
DiskFree == {None, Some(DISK_FREE_THRESHOLD_BYTES - 1), Some(DISK_FREE_THRESHOLD_BYTES)}

-----------------------------------------------------------------------------
(* HTTP requests *)

Req(method, endpoint, id, fields) ==
    [method |-> method, endpoint |-> endpoint, id |-> id, fields |-> fields]

MetricsReq == Req("GET", "v0/system-metrics", 0, "")
SubmitReq == Req("POST", "v0/runs", 0, "")
StatusReq(id) == Req("GET", "v0/runs?ids", id, "")
TaskReq(id) == Req("GET", "v0/runs?ids", id, "task_details")
ReasonReq(id) == Req("GET", "v0/runs?ids", id, "details.reason")
GetRunReq(id) == Req("GET", "v0/runs?ids", id, "id,name,workflow,parameters")
DescribeReq(id) == Req("GET", "v0/runs/id", id, "")
CancelReq(id) == Req("POST", "v0/runs/id/cancel", id, "")
ResubmitReq(id) == Req("POST", "v0/runs/id/resubmit", id, "")
TimeZoneReq == Req("GET", "", 0, "")

Latencies == {0, MaxLatency}

-----------------------------------------------------------------------------
(* VibeWorkflowRun *)

\* VibeWorkflowRun.__init__ (_reason is only ever written: the message `reason`
\* stores in it is the value it returns, and is kept as that)
NewHandle(id, name, workflow, parameters) ==
    [id |-> id, name |-> name, workflow |-> workflow, parameters |-> parameters,
     _status |-> "pending", _output |-> None, _task_details |-> None]

(* What one evaluation of a property or method can come to: the handle and
   the server's run afterwards, the requests sent, how it ended ("ok" or the
   exception raised), the value returned, and the value its evaluation of
   the `status` property returned (None when it made or finished none). *)
Outcome(h, run, calls, res, ret) ==
    [h |-> h, run |-> run, calls |-> calls, res |-> res, ret |-> ret, st |-> None]

\* StacConverter.from_stac_item(deserialize_stac(v)) for each output item
_convert_output(output) == <<"vibe", output>>

\* stable insertion of x into the sorted sequence s by key(.)
RECURSIVE InsertByKey(_, _, _)
InsertByKey(s, x, now) ==
    LET key(e) == IF e.submission_time # None THEN Parse(e.submission_time[1]) ELSE now
    IN IF s = <<>> THEN <<x>>
       ELSE IF key(s[Len(s)]) <= key(x) THEN Append(s, x)
       ELSE Append(InsertByKey(SubSeq(s, 1, Len(s) - 1), x, now), s[Len(s)])

RECURSIVE SortedByKey(_, _)
SortedByKey(details, now) ==
    IF details = <<>> THEN <<>>
    ELSE InsertByKey(SortedByKey(SubSeq(details, 1, Len(details) - 1), now),
                     details[Len(details)], now)

\* _convert_task_details: sorted by submission_time, datetime.now() for a
\* missing one, each block converted to RunDetails
_convert_task_details(details, now) ==
    LET sorted == SortedByKey(details, now)
    IN [i \in 1..Len(sorted) |-> RunDetails(sorted[i])]

\* what datetime.now() may be relative to the tasks' timestamps
Nows == {0, 3}

\* a `status` that asks the server whatever it has cached
status_uncached(hr, r) ==
    {[Outcome([hr EXCEPT !._status = r.status], r, <<StatusReq(hr.id)>>,
              "ok", Some(r.status)) EXCEPT !.st = Some(r.status)],
     Outcome(hr, r, <<StatusReq(hr.id)>>, "HTTPError", None)}

\* a `status` that sends its request a second time when the first one fails
status_retries(hr, r) ==
    IF ~finished(hr._status)
    THEN {[Outcome([hr EXCEPT !._status = r.status], r, calls, "ok", Some(r.status))
              EXCEPT !.st = Some(r.status)] :
             calls \in {<<StatusReq(hr.id)>>, <<StatusReq(hr.id), StatusReq(hr.id)>>}}
         \cup {Outcome(hr, r, <<StatusReq(hr.id), StatusReq(hr.id)>>, "HTTPError", None)}
    ELSE {[Outcome(hr, r, <<>>, "ok", Some(hr._status)) EXCEPT !.st = Some(hr._status)]}

\* the `status` property
status(hr, r) ==
    IF ~finished(hr._status)
    THEN {[Outcome([hr EXCEPT !._status = r.status], r, <<StatusReq(hr.id)>>,
                   "ok", Some(r.status)) EXCEPT !.st = Some(r.status)],
          Outcome(hr, r, <<StatusReq(hr.id)>>, "HTTPError", None)}
    ELSE {[Outcome(hr, r, <<>>, "ok", Some(hr._status)) EXCEPT !.st = Some(hr._status)]}

\* a `task_details` that caches the fetched mapping whatever the status read
task_details_always_caches(hr, r) ==
    IF hr._task_details # None
    THEN {Outcome(hr, r, <<>>, "ok", hr._task_details)}
    ELSE UNION {
        IF o.res # "ok" THEN {o}
        ELSE {[o EXCEPT !.h = [o.h EXCEPT !._task_details =
                                  Some(_convert_task_details(o.run.task_details, now))],
                        !.calls = Append(o.calls, TaskReq(hr.id)),
                        !.ret = Some(_convert_task_details(o.run.task_details, now))] :
                 now \in Nows}
             \cup {[o EXCEPT !.calls = Append(o.calls, TaskReq(hr.id)),
                             !.res = "HTTPError", !.ret = None]}
        : o \in status(hr, r)}

\* a `task_details` that takes a run being cancelled for a finished one
task_details_caches_cancelling(hr, r) ==
    IF hr._task_details # None
    THEN {Outcome(hr, r, <<>>, "ok", hr._task_details)}
    ELSE UNION {
        IF o.res # "ok" THEN {o}
        ELSE {[o EXCEPT !.h = IF finished_with_cancelling(o.st[1])
                              THEN [o.h EXCEPT !._task_details =
                                  Some(_convert_task_details(o.run.task_details, now))]
                              ELSE o.h,
                        !.calls = Append(o.calls, TaskReq(hr.id)),
                        !.ret = Some(_convert_task_details(o.run.task_details, now))] :
                 now \in Nows}
             \cup {[o EXCEPT !.calls = Append(o.calls, TaskReq(hr.id)),
                             !.res = "HTTPError", !.ret = None]}
        : o \in status(hr, r)}

\* the `task_details` property (the task blocks a run reports do not change
\* with its status, so the server's moves between the two requests show
\* only in the server's state afterwards)
task_details(hr, r) ==
    IF hr._task_details # None
    THEN {Outcome(hr, r, <<>>, "ok", hr._task_details)}
    ELSE UNION {
        IF o.res # "ok" THEN {o}
        ELSE {[o EXCEPT !.h = IF finished(o.st[1])
                              THEN [o.h EXCEPT !._task_details =
                                  Some(_convert_task_details(o.run.task_details, now))]
                              ELSE o.h,
                        !.calls = Append(o.calls, TaskReq(hr.id)),
                        !.ret = Some(_convert_task_details(o.run.task_details, now))] :
                 now \in Nows}
             \cup {[o EXCEPT !.calls = Append(o.calls, TaskReq(hr.id)),
                             !.res = "HTTPError", !.ret = None]}
        : o \in status(hr, r)}

\* the `task_status` property
task_status(hr, r) ==
    {IF o.res # "ok" THEN o
     ELSE [o EXCEPT !.ret = Some([i \in 1..Len(o.ret[1]) |->
                                    <<o.ret[1][i].task, o.ret[1][i].status>>])] :
        o \in task_details(hr, r)}

\* an `output` that converts and caches the payload of any finished run
output_of_finished(hr, r) ==
    IF hr._output # None
    THEN {Outcome(hr, r, <<>>, "ok", hr._output)}
    ELSE {Outcome(hr, r, <<DescribeReq(hr.id)>>, "HTTPError", None),
          IF ~finished(r.status)
          THEN Outcome([hr EXCEPT !._status = r.status], r, <<DescribeReq(hr.id)>>,
                       "ok", None)
          ELSE Outcome([hr EXCEPT !._status = r.status,
                                  !._output = Some(_convert_output(r.output))],
                       r, <<DescribeReq(hr.id)>>, "ok",
                       Some(_convert_output(r.output)))}

\* an `output` that caches the converted output and leaves _status alone
output_leaves_status(hr, r) ==
    IF hr._output # None
    THEN {Outcome(hr, r, <<>>, "ok", hr._output)}
    ELSE {Outcome(hr, r, <<DescribeReq(hr.id)>>, "HTTPError", None),
          IF r.status # "done"
          THEN Outcome(hr, r, <<DescribeReq(hr.id)>>, "ok", None)
          ELSE Outcome([hr EXCEPT !._output = Some(_convert_output(r.output[1]))],
                       r, <<DescribeReq(hr.id)>>, "ok",
                       Some(_convert_output(r.output[1])))}

\* the `output` property
output(hr, r) ==
    IF hr._output # None
    THEN {Outcome(hr, r, <<>>, "ok", hr._output)}
    ELSE {Outcome(hr, r, <<DescribeReq(hr.id)>>, "HTTPError", None),
          IF r.status # "done"
          THEN Outcome([hr EXCEPT !._status = r.status], r, <<DescribeReq(hr.id)>>,
                       "ok", None)
          ELSE Outcome([hr EXCEPT !._status = r.status,
                                  !._output = Some(_convert_output(r.output[1]))],
                       r, <<DescribeReq(hr.id)>>, "ok",
                       Some(_convert_output(r.output[1])))}

\* vibe_core.utils.format_double_escaped: a doubled backslash becomes one
RECURSIVE format_double_escaped(_)
format_double_escaped(text) ==
    IF Len(text) < 2 THEN text
    ELSE IF text[1] = "\\" /\ text[2] = "\\"
         THEN <<"\\">> \o format_double_escaped(SubSeq(text, 3, Len(text)))
         ELSE <<text[1]>> \o format_double_escaped(SubSeq(text, 2, Len(text)))

\* the messages `reason` builds itself
SuccessMsg == [msg |-> "Workflow run was successful.", status |-> "done"]
StatusMsg(st) == [msg |-> "Workflow run {status}.", status |-> st]
MonitorMsg(st) ==
    [msg |-> "Workflow run is {status}. Check monitor() for task updates.",
     status |-> st]
ServerMsg(text) == [msg |-> text, status |-> "failed"]

\* the branch of `reason` that asks the server for "details.reason"
reason_fetch(o) ==
    UNION {
        {[o EXCEPT !.run = r2, !.calls = Append(o.calls, ReasonReq(o.h.id)),
                   !.res = "HTTPError", !.ret = None]}
        \cup
        IF r2.reason # None
        THEN {[o EXCEPT !.run = r2, !.calls = Append(o.calls, ReasonReq(o.h.id)),
                        !.ret = Some(ServerMsg(format_double_escaped(r2.reason[1])))]}
        ELSE \* format_double_escaped(None): raises, or hands None through
             {[o EXCEPT !.run = r2, !.calls = Append(o.calls, ReasonReq(o.h.id)),
                        !.res = "Error", !.ret = None],
              [o EXCEPT !.run = r2, !.calls = Append(o.calls, ReasonReq(o.h.id)),
                        !.ret = None]}
        : r2 \in Adv(o.run)}

\* the message `reason` builds for a status without asking the server
reason_local(o, msg) == {[o EXCEPT !.ret = Some(msg)]}

\* the `reason` property
reason(hr, r) ==
    UNION {
        IF o.res # "ok" THEN {o}
        ELSE IF o.st[1] = "done" THEN reason_local(o, SuccessMsg)
        ELSE IF o.st[1] \in {"cancelled", "cancelling"}
             THEN reason_local(o, StatusMsg(o.st[1]))
        ELSE IF o.st[1] \in {"running", "pending"}
             THEN reason_local(o, MonitorMsg(o.st[1]))
        ELSE reason_fetch(o)
        : o \in status(hr, r)}

\* a cancel() that reads the status before it sends the cancel request
cancel_reads_first(hr, r) ==
    UNION {
        IF o.res # "ok" THEN {o}
        ELSE {[o EXCEPT !.calls = Append(o.calls, CancelReq(hr.id)),
                        !.res = "HTTPError", !.ret = None],
              [o EXCEPT !.run = CancelEffect(o.run),
                        !.calls = Append(o.calls, CancelReq(hr.id)),
                        !.ret = Some("self")]}
        : o \in status(hr, r)}

\* cancel(): client.cancel_run(self.id), then self.status; returns self
cancel(hr, r) ==
    {Outcome(hr, r, <<CancelReq(hr.id)>>, "HTTPError", None)}
    \cup UNION {
        {[o EXCEPT !.calls = <<CancelReq(hr.id)>> \o o.calls,
                   !.ret = IF o.res = "ok" THEN Some("self") ELSE None] :
            o \in status(hr, r2)}
        : r2 \in Adv(CancelEffect(r))}

-----------------------------------------------------------------------------
(* FarmvibesAiClient *)

\* serialize_input(input_data) and shpg.mapping(geometry): opaque encodings
serialize_input(input_data) == [serialized |-> input_data]
mapping(geometry) == [mapping |-> geometry]

\* a _form_payload that looks at geometry and time_range before input_data
_form_payload_geometry_first(workflow, parameters, geometry, time_range, input_data, run_name) ==
    IF geometry # None /\ time_range # None
    THEN [res |-> "ok",
          payload |-> Some(RunConfigInput(run_name, workflow, parameters,
                SpatioTemporalJson(time_range[1][1], time_range[1][2],
                    [features |-> <<[geometry |-> mapping(geometry[1]),
                                     type |-> "Feature"]>>,
                     type |-> "FeatureCollection"])))]
    ELSE IF input_data # None
    THEN [res |-> "ok",
          payload |-> Some(RunConfigInput(run_name, workflow, parameters,
                                          serialize_input(input_data[1])))]
    ELSE [res |-> "ValueError", payload |-> None]

\* _form_payload: the payload, or the ValueError
_form_payload(workflow, parameters, geometry, time_range, input_data, run_name) ==
    IF input_data # None
    THEN [res |-> "ok",
          payload |-> Some(RunConfigInput(run_name, workflow, parameters,
                                          serialize_input(input_data[1])))]
    ELSE IF geometry = None \/ time_range = None
    THEN [res |-> "ValueError", payload |-> None]
    ELSE [res |-> "ok",
          payload |-> Some(RunConfigInput(run_name, workflow, parameters,
                SpatioTemporalJson(time_range[1][1], time_range[1][2],
                    [features |-> <<[geometry |-> mapping(geometry[1]),
                                     type |-> "Feature"]>>,
                     type |-> "FeatureCollection"])))]

(* What a client call can come to: the server's runs afterwards, the handle
   it returns (if any), the requests sent, how it ended, whether the
   low-disk-space warning was raised, the payload built (if any), and what
   the metrics query answered for "disk_free" (None when it answered
   nothing). *)
ClientOutcome(rs, handle, calls, res, warned, payload) ==
    [runs |-> rs, handle |-> handle, calls |-> calls, res |-> res,
     warned |-> warned, payload |-> payload, disk_free |-> None]

\* a verify_disk_space that fails the call when disk space is low
verify_disk_space_raises(rs) ==
    {ClientOutcome(rs, None, <<MetricsReq>>, "HTTPError", FALSE, None)}
    \cup {[ClientOutcome(rs, None, <<MetricsReq>>,
                         IF df # None /\ df[1] < DISK_FREE_THRESHOLD_BYTES
                         THEN "RuntimeWarning" ELSE "ok",
                         df # None /\ df[1] < DISK_FREE_THRESHOLD_BYTES, None)
              EXCEPT !.disk_free = Some(df)] :
             df \in DiskFree}

\* verify_disk_space: get_system_metrics(), and the warning
verify_disk_space(rs) ==
    {ClientOutcome(rs, None, <<MetricsReq>>, "HTTPError", FALSE, None)}
    \cup {[ClientOutcome(rs, None, <<MetricsReq>>, "ok",
                         df # None /\ df[1] < DISK_FREE_THRESHOLD_BYTES, None)
              EXCEPT !.disk_free = Some(df)] :
             df \in DiskFree}

\* get_run_by_id: list_runs(id, fields)[0] made into a handle
get_run_by_id(rs, id) ==
    {ClientOutcome(rs, None, <<GetRunReq(id)>>, "HTTPError", FALSE, None),
     ClientOutcome(rs, Some(NewHandle(id, rs[id].name, rs[id].workflow,
                                      rs[id].parameters)),
                   <<GetRunReq(id)>>, "ok", FALSE, None)}

\* a POST that makes the server allocate run Len(rs) + 1, then get_run_by_id
post_and_get(v, req, new, payload) ==
    {[v EXCEPT !.calls = Append(v.calls, req), !.res = "HTTPError",
               !.payload = payload]}
    \cup {[v EXCEPT !.runs = g.runs, !.handle = g.handle,
                    !.calls = Append(v.calls, req) \o g.calls, !.res = g.res,
                    !.payload = payload] :
             g \in get_run_by_id(Append(v.runs, new), Len(v.runs) + 1)}

\* a run() that makes the handle itself from the POST's answer and its arguments
run_local(rs, workflow, name, geometry, time_range, input_data, parameters) ==
    LET built == _form_payload(workflow, parameters, geometry, time_range,
                               input_data, name)
    IN UNION {
        IF v.res # "ok" THEN {v}
        ELSE IF built.res # "ok"
        THEN {[v EXCEPT !.res = built.res]}
        ELSE {[v EXCEPT !.calls = Append(v.calls, SubmitReq), !.res = "HTTPError",
                        !.payload = built.payload],
              [v EXCEPT !.runs = Append(v.runs,
                                    NewRun(built.payload[1].name,
                                           built.payload[1].workflow,
                                           built.payload[1].parameters)),
                        !.handle = Some(NewHandle(Len(v.runs) + 1, name, workflow,
                                                  parameters)),
                        !.calls = Append(v.calls, SubmitReq),
                        !.payload = built.payload]}
        : v \in verify_disk_space(rs)}

\* run(workflow, name, geometry, time_range, input_data, parameters)
run(rs, workflow, name, geometry, time_range, input_data, parameters) ==
    LET built == _form_payload(workflow, parameters, geometry, time_range,
                               input_data, name)
    IN UNION {
        IF v.res # "ok" THEN {v}
        ELSE IF built.res # "ok"
        THEN {[v EXCEPT !.res = built.res]}
        ELSE post_and_get(v, SubmitReq,
                          NewRun(built.payload[1].name, built.payload[1].workflow,
                                 built.payload[1].parameters),
                          built.payload)
        : v \in verify_disk_space(rs)}

\* resubmit_run(run_id)
resubmit_run(rs, run_id) ==
    UNION {
        IF v.res # "ok" THEN {v}
        ELSE post_and_get(v, ResubmitReq(run_id),
                          NewRun(rs[run_id].name, rs[run_id].workflow,
                                 rs[run_id].parameters),
                          None)
        : v \in verify_disk_space(rs)}

\* a resubmit() that wraps the identifier it was called on
resubmit_same_id(hr, rs) ==
    UNION {
        IF v.res # "ok" THEN {v}
        ELSE {[v EXCEPT !.calls = Append(v.calls, ResubmitReq(hr.id)),
                        !.res = "HTTPError"]}
             \cup {[v EXCEPT !.runs = g.runs, !.handle = g.handle,
                             !.calls = Append(v.calls, ResubmitReq(hr.id)) \o g.calls,
                             !.res = g.res] :
                      g \in get_run_by_id(
                               Append(v.runs, NewRun(rs[hr.id].name, rs[hr.id].workflow,
                                                     rs[hr.id].parameters)),
                               hr.id)}
        : v \in verify_disk_space(rs)}

\* VibeWorkflowRun.resubmit
resubmit(hr, rs) == resubmit_run(rs, hr.id)

-----------------------------------------------------------------------------
(* State *)

NoCall == [kind |-> "none"]
Idle == call = NoCall

NoLast ==
    [op |-> "init", h |-> 0, pre |-> None, obs |-> None, calls |-> <<>>,
     res |-> "ok", ret |-> None, retHandle |-> 0, warned |-> FALSE,
     st |-> None, srv |-> "", args |-> None, payload |-> None,
     timeout |-> None, elapsed |-> 0, prev |-> 0, pc |-> "", disk_free |-> None]

Init ==
    /\ runs = <<>>
    /\ handles = <<>>
    /\ observed = <<>>
    /\ call = NoCall
    /\ last = NoLast

Hs == 1..Len(handles)
RunOf(h) == runs[handles[h].id]

\* the first finished status the handle held
Observe(obs, hr) == IF obs = None /\ finished(hr._status) THEN Some(hr._status) ELSE obs

\* handles that keep their caches in one place per run identifier
HandleEffect_shared(h, o) ==
    /\ handles' = [g \in 1..Len(handles) |->
                      IF handles[g].id = handles[h].id THEN o.h ELSE handles[g]]
    /\ runs' = [runs EXCEPT ![handles[h].id] = o.run]
    /\ observed' = [observed EXCEPT ![h] = Observe(@, o.h)]

\* the handle and the server after handle h evaluated outcome o
HandleEffect(h, o) ==
    /\ handles' = [handles EXCEPT ![h] = o.h]
    /\ runs' = [runs EXCEPT ![handles[h].id] = o.run]
    /\ observed' = [observed EXCEPT ![h] = Observe(@, o.h)]

\* the record of handle h's step of op with outcome o
OpLast(op, h, o) ==
    [NoLast EXCEPT !.op = op, !.h = h, !.pre = Some(handles[h]),
                   !.obs = observed[h], !.calls = o.calls, !.res = o.res,
                   !.ret = o.ret, !.st = o.st, !.srv = o.run.status,
                   !.retHandle = IF op = "cancel" /\ o.res = "ok" THEN h ELSE 0]

HandleStep(op, h, o) == HandleEffect(h, o) /\ last' = OpLast(op, h, o)

\* the client call that may add a handle, with outcome c
ClientStep(op, h, c, args) ==
    /\ runs' = c.runs
    /\ handles' = IF c.handle # None THEN Append(handles, c.handle[1]) ELSE handles
    /\ observed' = IF c.handle # None THEN Append(observed, None) ELSE observed
    /\ last' = [NoLast EXCEPT !.op = op, !.h = h,
                              !.pre = IF h = 0 THEN None ELSE Some(handles[h]),
                              !.calls = c.calls, !.res = c.res,
                              !.retHandle = IF c.handle # None
                                            THEN Len(handles) + 1 ELSE 0,
                              !.warned = c.warned, !.args = args,
                              !.payload = c.payload, !.disk_free = c.disk_free]

-----------------------------------------------------------------------------
(* The caller's operations *)

\* what callers submit
Workflows == {[kind |-> "text", v |-> "{wf}"]}
Geometries == {None, Some("Point(1,2)")}
TimeRanges == {None, Some(<<1, 2>>)}
InputData == {None, Some("a:1")}
Parameters == {Some("p")}

Run ==
    /\ Idle /\ Len(runs) < MaxRuns /\ Len(handles) < MaxHandles
    /\ \E workflow \in Workflows, geometry \in Geometries, time_range \in TimeRanges,
          input_data \in InputData, parameters \in Parameters :
          \E c \in run(runs, workflow, "name", geometry, time_range, input_data,
                       parameters) :
              ClientStep("run", 0, c,
                         Some([workflow |-> workflow, name |-> "name",
                               geometry |-> geometry, time_range |-> time_range,
                               input_data |-> input_data, parameters |-> parameters]))
    /\ UNCHANGED call

GetRunById ==
    /\ Idle /\ Len(handles) < MaxHandles
    /\ \E id \in 1..Len(runs) : \E c \in get_run_by_id(runs, id) :
          ClientStep("get_run_by_id", 0, c, None)
    /\ UNCHANGED call

Resubmit(h) ==
    /\ Idle /\ Len(runs) < MaxRuns /\ Len(handles) < MaxHandles
    /\ \E c \in resubmit(handles[h], runs) : ClientStep("resubmit", h, c, None)
    /\ UNCHANGED call

Status(h) ==
    /\ Idle
    /\ \E o \in status(handles[h], RunOf(h)) : HandleStep("status", h, o)
    /\ UNCHANGED call

TaskDetails(h) ==
    /\ Idle
    /\ \E o \in task_details(handles[h], RunOf(h)) : HandleStep("task_details", h, o)
    /\ UNCHANGED call

TaskStatus(h) ==
    /\ Idle
    /\ \E o \in task_status(handles[h], RunOf(h)) : HandleStep("task_status", h, o)
    /\ UNCHANGED call

Output(h) ==
    /\ Idle
    /\ \E o \in output(handles[h], RunOf(h)) : HandleStep("output", h, o)
    /\ UNCHANGED call

Reason(h) ==
    /\ Idle
    /\ \E o \in reason(handles[h], RunOf(h)) : HandleStep("reason", h, o)
    /\ UNCHANGED call

Cancel(h) ==
    /\ Idle
    /\ \E o \in cancel(handles[h], RunOf(h)) : HandleStep("cancel", h, o)
    /\ UNCHANGED call

\* the server moves a run along its lifecycle
ServerStep ==
    /\ \E id \in 1..Len(runs) : \E r \in ServerNext(runs[id]) :
          runs' = [runs EXCEPT ![id] = r]
    /\ UNCHANGED <<handles, observed, call, last>>

Next ==
    \/ Run
    \/ GetRunById
    \/ ServerStep
    \/ \E h \in Hs : Status(h)
    \/ \E h \in Hs : TaskDetails(h)
    \/ \E h \in Hs : TaskStatus(h)
    \/ \E h \in Hs : Output(h)
    \/ \E h \in Hs : Reason(h)
    \/ \E h \in Hs : Cancel(h)
    \/ \E h \in Hs : Resubmit(h)

Spec == Init /\ [][Next]_vars

-----------------------------------------------------------------------------
(* Submissions, and the status reads of the handles they return *)

NextRun ==
    \/ Run
    \/ ServerStep
    \/ \E h \in Hs : Status(h)

SpecRun == Init /\ [][NextRun]_vars

-----------------------------------------------------------------------------
(* One handle, right after run() returned it *)

InitHandle ==
    /\ runs = <<NewRun("name", [kind |-> "dict", v |-> "{wf}"], Some("p"))>>
    /\ handles = <<NewHandle(1, "name", [kind |-> "dict", v |-> "{wf}"], Some("p"))>>
    /\ observed = <<None>>
    /\ call = NoCall
    /\ last = [NoLast EXCEPT !.op = "run", !.retHandle = 1]

NextHandle ==
    \/ ServerStep
    \/ \E h \in Hs : Status(h)
    \/ \E h \in Hs : TaskDetails(h)
    \/ \E h \in Hs : TaskStatus(h)
    \/ \E h \in Hs : Output(h)
    \/ \E h \in Hs : Reason(h)
    \/ \E h \in Hs : Cancel(h)

SpecHandle == InitHandle /\ [][NextHandle]_vars

-----------------------------------------------------------------------------
(* One handle against a server that may answer with any status at all *)

\* the server's record of a run comes to hold any status
ServerAny ==
    /\ \E id \in 1..Len(runs), st \in RunStatus :
          runs' = [runs EXCEPT ![id] =
                      [@ EXCEPT !.status = st,
                                !.output = IF st = "done" THEN Some(RawOutput) ELSE None,
                                !.reason = IF st = "failed" THEN Some(RawReason)
                                           ELSE None]]
    /\ UNCHANGED <<handles, observed, call, last>>

NextAnyServer ==
    \/ ServerAny
    \/ \E h \in Hs : Status(h)
    \/ \E h \in Hs : TaskDetails(h)
    \/ \E h \in Hs : TaskStatus(h)
    \/ \E h \in Hs : Output(h)
    \/ \E h \in Hs : Reason(h)
    \/ \E h \in Hs : Cancel(h)

SpecAnyServer == InitHandle /\ [][NextAnyServer]_vars

-----------------------------------------------------------------------------
(* Two handles for one run: the one run() returned and one that
   get_run_by_id made for the same identifier *)

InitTwo ==
    /\ runs = <<NewRun("name", [kind |-> "dict", v |-> "{wf}"], Some("p"))>>
    /\ handles = <<NewHandle(1, "name", [kind |-> "dict", v |-> "{wf}"], Some("p")),
                   NewHandle(1, "name", [kind |-> "dict", v |-> "{wf}"], Some("p"))>>
    /\ observed = <<None, None>>
    /\ call = NoCall
    /\ last = [NoLast EXCEPT !.op = "get_run_by_id", !.retHandle = 2]

SpecTwo == InitTwo /\ [][NextHandle]_vars

-----------------------------------------------------------------------------
(* block_until_complete(timeout_s): time_start is 0, `elapsed` is
   time.time() - time_start, `prev` the elapsed time at the last timeout
   check that let the loop go on. *)

BlockTimeouts == {None, Some(5), Some(wait_s)}

\* a wait loop that ends on every finished status
block_exits_finished(st) == finished(st)

\* a wait loop that ends on a successful run only
block_exits_done(st) == st = "done"

\* the statuses that end the wait loop: status in (RunStatus.done, RunStatus.failed)
block_exits(st) == st \in {"done", "failed"}

\* a timeout check that counts the coming sleep in
TimedOut_early(elapsed, timeout_s) ==
    timeout_s # None /\ elapsed + wait_s > timeout_s[1]

\* timeout_s is not None and (time.time() - time_start) > timeout_s
TimedOut(elapsed, timeout_s) == timeout_s # None /\ elapsed > timeout_s[1]

\* time.time() - time_start after d more seconds; in a wait without a
\* timeout, where the time decides nothing, it is followed up to MaxBlockClock
Clock(elapsed, d, timeout_s) ==
    IF timeout_s = None /\ elapsed + d > MaxBlockClock THEN elapsed ELSE elapsed + d

\* the seconds the requests of a step took
Took(calls) == IF calls = <<>> THEN {0} ELSE Latencies

BlockStart(h) ==
    /\ Idle
    /\ \E timeout_s \in BlockTimeouts :
          /\ call' = [kind |-> "block", h |-> h, timeout_s |-> timeout_s,
                      elapsed |-> 0, prev |-> 0, pc |-> "check"]
          /\ last' = [NoLast EXCEPT !.op = "block", !.h = h, !.res = "pending",
                                    !.pre = Some(handles[h]), !.obs = observed[h],
                                    !.timeout = timeout_s, !.pc = "start"]
    /\ UNCHANGED <<runs, handles, observed>>

\* while self.status not in (done, failed): ... / return self
BlockCheck ==
    /\ call.kind = "block" /\ call.pc = "check"
    /\ \E o \in status(handles[call.h], RunOf(call.h)) : \E l \in Took(o.calls) :
          /\ HandleEffect(call.h, o)
          /\ call' = IF o.res # "ok" \/ block_exits(o.st[1]) THEN NoCall
                     ELSE [call EXCEPT !.pc = "sleep",
                                       !.elapsed = Clock(@, l, call.timeout_s)]
          /\ last' = [OpLast("block", call.h, o) EXCEPT
                         !.res = IF o.res # "ok" THEN o.res
                                 ELSE IF block_exits(o.st[1]) THEN "ok" ELSE "pending",
                         !.retHandle = IF o.res = "ok" /\ block_exits(o.st[1])
                                       THEN call.h ELSE 0,
                         !.timeout = call.timeout_s,
                         !.elapsed = Clock(call.elapsed, l, call.timeout_s),
                         !.prev = call.prev, !.pc = "check"]

\* a wait loop that cancels the run when it times out
BlockSleep_cancels ==
    /\ call.kind = "block" /\ call.pc = "sleep"
    /\ LET now == Clock(call.elapsed, wait_s, call.timeout_s)
           id == handles[call.h].id
       IN /\ call' = IF TimedOut(now, call.timeout_s) THEN NoCall
                     ELSE [call EXCEPT !.pc = "check", !.elapsed = now, !.prev = now]
          /\ runs' = IF TimedOut(now, call.timeout_s)
                     THEN [runs EXCEPT ![id] = CancelEffect(@)] ELSE runs
          /\ last' = [NoLast EXCEPT !.op = "block", !.h = call.h,
                         !.pre = Some(handles[call.h]), !.obs = observed[call.h],
                         !.calls = IF TimedOut(now, call.timeout_s)
                                   THEN <<CancelReq(id)>> ELSE <<>>,
                         !.res = IF TimedOut(now, call.timeout_s)
                                 THEN "RuntimeError" ELSE "pending",
                         !.timeout = call.timeout_s, !.elapsed = now,
                         !.prev = call.prev, !.pc = "sleep"]
    /\ UNCHANGED <<handles, observed>>

\* time.sleep(self.wait_s), then the timeout check
BlockSleep ==
    /\ call.kind = "block" /\ call.pc = "sleep"
    /\ LET now == Clock(call.elapsed, wait_s, call.timeout_s)
       IN /\ call' = IF TimedOut(now, call.timeout_s) THEN NoCall
                     ELSE [call EXCEPT !.pc = "check", !.elapsed = now, !.prev = now]
          /\ last' = [NoLast EXCEPT !.op = "block", !.h = call.h,
                         !.pre = Some(handles[call.h]), !.obs = observed[call.h],
                         !.res = IF TimedOut(now, call.timeout_s)
                                 THEN "RuntimeError" ELSE "pending",
                         !.timeout = call.timeout_s, !.elapsed = now,
                         !.prev = call.prev, !.pc = "sleep"]
    /\ UNCHANGED <<runs, handles, observed>>

-----------------------------------------------------------------------------
(* block_until_complete as a running loop: once called, its checks and
   sleeps go on until it returns or raises *)

NextBlock ==
    \/ ServerStep
    \/ \E h \in Hs : Cancel(h)
    \/ \E h \in Hs : BlockStart(h)
    \/ BlockCheck
    \/ BlockSleep

SpecBlock ==
    InitHandle /\ [][NextBlock]_vars /\ WF_vars(BlockCheck) /\ WF_vars(BlockSleep)

-----------------------------------------------------------------------------
(* monitor(refresh_time_s, refresh_warnings_time_min, timeout_min):
   time_start is 0, `elapsed` is the current time, last_warning_refresh the
   time of the last disk-space check, `warnings` the warnings recorded. *)

SecondsPerMinute == 60
RefreshTimes == {45}
WarningRefreshTimes == {1}
MonitorTimeouts == {None, Some(2)}

\* monitor.update_run_status(..., self.status, self.task_details, warnings)
update_run_status(hr, r) ==
    UNION {
        IF o.res # "ok" THEN {o}
        ELSE UNION {
            {[d EXCEPT !.calls = o.calls \o d.calls, !.st = o.st,
                       !.ret = IF d.res = "ok"
                               THEN Some([status |-> o.st[1], task_details |-> d.ret[1]])
                               ELSE None] :
                d \in task_details(o.h, r2)}
            : r2 \in Adv(o.run)}
        : o \in status(hr, r)}

\* a warning refresh that measures the time from the start of the loop
WarningsDue_since_start(now, last_warning_refresh, refresh_warnings_time_min) ==
    now > SecondsPerMinute * refresh_warnings_time_min

\* (curent_time - last_warning_refresh) / 60.0 > refresh_warnings_time_min
WarningsDue(now, last_warning_refresh, refresh_warnings_time_min) ==
    now - last_warning_refresh > SecondsPerMinute * refresh_warnings_time_min

\* timeout_min is not None and (curent_time - time_start) / 60.0 > timeout_min
did_timeout(now, timeout_min) ==
    timeout_min # None /\ now > SecondsPerMinute * timeout_min[1]

\* a monitor that goes on watching a cancelled run
stop_monitoring_done_failed(st, now, timeout_min) ==
    st \in {"done", "failed"} \/ did_timeout(now, timeout_min)

\* stop_monitoring = RunStatus.finished(self.status) or did_timeout
stop_monitoring(st, now, timeout_min) == finished(st) \/ did_timeout(now, timeout_min)

MonitorStart(h) ==
    /\ Idle
    /\ \E refresh_time_s \in RefreshTimes,
          refresh_warnings_time_min \in WarningRefreshTimes,
          timeout_min \in MonitorTimeouts, ok \in BOOLEAN :
          \* get_api_time_zone(): session.request("GET", baseurl)
          /\ call' = IF ok
                     THEN [kind |-> "monitor", h |-> h,
                           refresh_time_s |-> refresh_time_s,
                           refresh_warnings_time_min |-> refresh_warnings_time_min,
                           timeout_min |-> timeout_min, elapsed |-> 0,
                           last_warning_refresh |-> 0, warnings |-> 0,
                           pc |-> "update"]
                     ELSE NoCall
          /\ last' = [NoLast EXCEPT !.op = "monitor", !.h = h,
                                    !.pre = Some(handles[h]), !.obs = observed[h],
                                    !.calls = <<TimeZoneReq>>,
                                    !.res = IF ok THEN "pending" ELSE "ConnectionError",
                                    !.timeout = timeout_min, !.pc = "start"]
    /\ UNCHANGED <<runs, handles, observed>>

\* the display at the head of an iteration (pc "update") and the one after
\* the loop (pc "final")
MonitorUpdate ==
    /\ call.kind = "monitor" /\ call.pc \in {"update", "final"}
    /\ \E o \in update_run_status(handles[call.h], RunOf(call.h)) :
       \E l \in Took(o.calls) :
          /\ HandleEffect(call.h, o)
          /\ call' = IF o.res # "ok" \/ call.pc = "final" THEN NoCall
                     ELSE [call EXCEPT !.pc = "sleep", !.elapsed = @ + l]
          /\ last' = [OpLast("monitor", call.h, o) EXCEPT
                         !.res = IF o.res # "ok" THEN o.res
                                 ELSE IF call.pc = "final" THEN "ok" ELSE "pending",
                         !.warned = call.warnings > 0,
                         !.timeout = call.timeout_min, !.elapsed = call.elapsed + l,
                         !.prev = call.last_warning_refresh, !.pc = call.pc]

\* time.sleep(refresh_time_s), the disk-space check when due, the timeout
\* check and the status read that decide whether to go on
MonitorSleep ==
    /\ call.kind = "monitor" /\ call.pc = "sleep"
    /\ call.timeout_min # None \/ call.elapsed < MaxMonitorClock
    /\ LET now == call.elapsed + call.refresh_time_s
           due == WarningsDue(now, call.last_warning_refresh,
                              call.refresh_warnings_time_min)
       IN \E v \in IF due THEN verify_disk_space(runs)
                   ELSE {ClientOutcome(runs, None, <<>>, "ok", FALSE, None)} :
          \E o \in IF v.res = "ok" THEN status(handles[call.h], RunOf(call.h))
                   ELSE {Outcome(handles[call.h], RunOf(call.h), <<>>, v.res, None)} :
          \E l \in Took(v.calls \o o.calls) :
             /\ HandleEffect(call.h, o)
             /\ call' = IF o.res # "ok" THEN NoCall
                        ELSE [call EXCEPT
                                 !.elapsed = now + l,
                                 !.last_warning_refresh = IF due THEN now ELSE @,
                                 !.warnings = IF v.warned THEN @ + 1 ELSE @,
                                 !.pc = IF stop_monitoring(o.st[1], now, call.timeout_min)
                                        THEN "final" ELSE "update"]
             /\ last' = [OpLast("monitor", call.h, o) EXCEPT
                            !.calls = v.calls \o o.calls,
                            !.res = IF o.res # "ok" THEN o.res ELSE "pending",
                            !.warned = v.warned, !.disk_free = v.disk_free,
                            !.args = Some([refresh_warnings_time_min |->
                                               call.refresh_warnings_time_min]),
                            !.timeout = call.timeout_min, !.elapsed = now,
                            !.prev = call.last_warning_refresh, !.pc = "sleep"]

-----------------------------------------------------------------------------
(* One handle and the caller's wait loops on it *)

NextWait ==
    \/ ServerStep
    \/ \E h \in Hs : Status(h)
    \/ \E h \in Hs : Output(h)
    \/ \E h \in Hs : Cancel(h)
    \/ \E h \in Hs : BlockStart(h)
    \/ BlockCheck
    \/ BlockSleep
    \/ \E h \in Hs : MonitorStart(h)
    \/ MonitorUpdate
    \/ MonitorSleep

SpecWait == InitHandle /\ [][NextWait]_vars

-----------------------------------------------------------------------------
(* The calls that check the server's disk space: run(), resubmit() and
   monitor. The server's runs move on between the requests of monitor's
   display (Adv in update_run_status), the only time this caller can see
   them move. *)

NextDisk ==
    \/ Run
    \/ \E h \in Hs : Resubmit(h)
    \/ \E h \in Hs : MonitorStart(h)
    \/ MonitorUpdate
    \/ MonitorSleep

SpecDisk == Init /\ [][NextDisk]_vars

-----------------------------------------------------------------------------
(* The payload builder alone, on every combination of its arguments *)

PayloadWorkflows ==
    {[kind |-> "text", v |-> "helloworld"], [kind |-> "text", v |-> "{wf}"],
     [kind |-> "dict", v |-> "{wf}"]}
PayloadGeometries == {None, Some("Point(1,2)"), Some("Polygon")}
PayloadTimeRanges == {None, Some(<<1, 2>>), Some(<<2, 2>>)}
PayloadInputData == {None, Some("a:1"), Some("b:2")}
PayloadParameters == {None, Some("p")}

PayloadArgs ==
    [workflow : PayloadWorkflows, name : {"name"}, geometry : PayloadGeometries,
     time_range : PayloadTimeRanges, input_data : PayloadInputData,
     parameters : PayloadParameters]

InitPayload ==
    /\ runs = <<>>
    /\ handles = <<>>
    /\ observed = <<>>
    /\ call = NoCall
    /\ \E a \in PayloadArgs : last = [NoLast EXCEPT !.op = "args", !.args = Some(a)]

FormPayload ==
    /\ last.op = "args"
    /\ LET a == last.args[1]
           built == _form_payload(a.workflow, a.parameters, a.geometry,
                                  a.time_range, a.input_data, a.name)
       IN last' = [last EXCEPT !.op = "_form_payload", !.res = built.res,
                               !.payload = built.payload]
    /\ UNCHANGED <<runs, handles, observed, call>>

SpecPayload == InitPayload /\ [][FormPayload]_vars

-----------------------------------------------------------------------------
(* The transport alone: _request on every response of a small set.
   A parsed body is [type, items]: a dict holds its <<key, value>> pairs, a
   list or scalar its elements, a str its text. *)

Str(text) == [type |-> "str", items |-> << <<text>> >>]

\* response.text of the responses looked at
ResponseTexts ==
    {"{'message': 'm'}", "{'detail': 'd'}", "{}", "[1]", "3", "null", "'s'",
     "", "<html>", "Not Found"}

\* response.status_code of the responses looked at
StatusCodes == {200, 201, 304, 400, 404, 500, 503}

\* json.loads(text): the parsed value, or JSONDecodeError
json_loads(text) ==
    CASE text = "{'message': 'm'}" ->
            [res |-> "ok", v |-> [type |-> "dict", items |-> << <<"message", "m">> >>]]
      [] text = "{'detail': 'd'}" ->
            [res |-> "ok", v |-> [type |-> "dict", items |-> << <<"detail", "d">> >>]]
      [] text = "{}" -> [res |-> "ok", v |-> [type |-> "dict", items |-> <<>>]]
      [] text = "[1]" -> [res |-> "ok", v |-> [type |-> "list", items |-> << <<"1">> >>]]
      [] text = "3" -> [res |-> "ok", v |-> [type |-> "int", items |-> << <<"3">> >>]]
      [] text = "null" -> [res |-> "ok", v |-> [type |-> "NoneType", items |-> <<>>]]
      [] text = "'s'" -> [res |-> "ok", v |-> Str("s")]
      [] OTHER -> [res |-> "JSONDecodeError", v |-> Str("")]

\* response.raise_for_status(): the text of the HTTPError, if it raises one
raise_for_status(code) ==
    IF 400 <= code /\ code < 500 THEN Some(<<code, "Client Error">>)
    ELSE IF 500 <= code /\ code < 600 THEN Some(<<code, "Server Error">>)
    ELSE None

\* r.get(key, default) of a dict r
dict_get(r, key, default) ==
    IF \E i \in 1..Len(r.items) : r.items[i][1] = key
    THEN Str(r.items[CHOOSE i \in 1..Len(r.items) : r.items[i][1] = key][2])
    ELSE default

\* a _request that always reports the parsed body
_request_raw_body(code, text) ==
    LET r == IF json_loads(text).res = "ok" THEN json_loads(text).v ELSE Str(text)
        e == raise_for_status(code)
    IN IF e # None
       THEN [res |-> "HTTPError", ret |-> Some([e |-> e[1], error_message |-> r])]
       ELSE [res |-> "ok", ret |-> Some(r)]

\* _request: what it returns, or the HTTPError(f"{e}. {error_message}") it raises
_request(code, text) ==
    LET r == IF json_loads(text).res = "ok" THEN json_loads(text).v ELSE Str(text)
        e == raise_for_status(code)
    IN IF e # None
       THEN [res |-> "HTTPError",
             ret |-> Some([e |-> e[1],
                           error_message |-> IF r.type = "dict"
                                             THEN dict_get(r, "message", Str(""))
                                             ELSE r])]
       ELSE [res |-> "ok", ret |-> Some(r)]

HttpMethods == {"GET", "POST"}

InitRequest ==
    /\ runs = <<>>
    /\ handles = <<>>
    /\ observed = <<>>
    /\ call = NoCall
    /\ \E method \in HttpMethods, code \in StatusCodes, text \in ResponseTexts :
          last = [NoLast EXCEPT !.op = "response",
                                !.args = Some([method |-> method, code |-> code,
                                               text |-> text])]

Request ==
    /\ last.op = "response"
    /\ LET a == last.args[1]
           o == _request(a.code, a.text)
       IN last' = [last EXCEPT !.op = "_request", !.res = o.res, !.ret = o.ret,
                               !.calls = <<Req(a.method, "", 0, "")>>]
    /\ UNCHANGED <<runs, handles, observed, call>>

SpecRequest == InitRequest /\ [][Request]_vars

-----------------------------------------------------------------------------
(* Claims *)

\* the handle the last step was about, before and after it
LastPre == last.pre[1]
LastPost == handles[last.h]

(* C1: a `status` read sends exactly one status request when the cached
   status is not finished and no request once it is finished; every read
   after the handle held a finished status returns that same status. *)
C1_StatusCaching ==
    last.op = "status" =>
        /\ ~finished(LastPre._status) => last.calls = <<StatusReq(LastPre.id)>>
        /\ finished(LastPre._status) => last.calls = <<>>
        /\ last.obs # None =>
              /\ last.calls = <<>>
              /\ last.res = "ok"
              /\ last.ret = last.obs
              /\ LastPost = LastPre

C1_Witness ==
    /\ last.op = "status"
    /\ last.obs # None
    /\ last.calls = <<>>
    /\ last.ret = last.obs

(* C2: an `output` read that fetches the run record returns None and leaves
   _output empty when the fetched status is not "done" (also for "failed"
   and "cancelled"), and returns and caches the converted output when it
   is "done". *)
C2_OutputOnlyWhenDone ==
    (last.op = "output" /\ last.res = "ok" /\ LastPre._output = None) =>
        /\ last.calls = <<DescribeReq(LastPre.id)>>
        /\ LastPost._status # "done" => last.ret = None /\ LastPost._output = None
        /\ LastPost._status = "done" =>
              /\ last.ret = Some(_convert_output(RawOutput))
              /\ LastPost._output = last.ret

C2_Witness ==
    /\ last.op = "output" /\ last.res = "ok" /\ LastPre._output = None
    /\ LastPost._status \in {"failed", "cancelled"}
    /\ last.ret = None /\ LastPost._output = None

(* C8, as claimed: cancel() sends the cancel request and then always
   re-fetches the status, and returns the same handle. *)
C8_AlwaysRefetches ==
    (last.op = "cancel" /\ last.res = "ok") =>
        /\ last.calls = <<CancelReq(LastPre.id), StatusReq(LastPre.id)>>
        /\ LastPost._status = last.srv
        /\ last.retHandle = last.h

(* C8, amended: cancel() sends one cancel request and then reads `status`:
   a handle whose cached status was not finished re-fetches it, and holds
   on return what the server reported after the cancel request; a handle
   whose cached status was finished sends nothing more and keeps it. It
   returns the same handle. *)
C8_CancelThenStatusRead ==
    (last.op = "cancel" /\ last.res = "ok") =>
        /\ last.retHandle = last.h
        /\ ~finished(LastPre._status) =>
              /\ last.calls = <<CancelReq(LastPre.id), StatusReq(LastPre.id)>>
              /\ LastPost._status = last.srv
              /\ last.srv \notin {"pending", "queued", "running"}
        /\ finished(LastPre._status) =>
              /\ last.calls = <<CancelReq(LastPre.id)>>
              /\ LastPost._status = LastPre._status

C8_Witness ==
    /\ last.op = "cancel" /\ last.res = "ok"
    /\ LastPre._status = "running"
    /\ LastPost._status = "cancelling"
    /\ last.calls = <<CancelReq(LastPre.id), StatusReq(LastPre.id)>>

\* whether the last step asked the server for the failure reason
AskedReason == \E i \in 1..Len(last.calls) : last.calls[i] = ReasonReq(LastPre.id)

(* C10: `reason` follows the status read: "done" gives the success message,
   "cancelled"/"cancelling" the message naming the status,
   "running"/"pending"/"queued" the message pointing to monitor() without
   asking the server, and only "failed" asks the server for details.reason
   and returns it. *)
C10_ReasonByStatus ==
    (last.op = "reason" /\ last.st # None) =>
        /\ last.st[1] = "done" => ~AskedReason /\ last.ret = Some(SuccessMsg)
        /\ last.st[1] \in {"cancelled", "cancelling"} =>
              ~AskedReason /\ last.ret = Some(StatusMsg(last.st[1]))
        /\ last.st[1] \in {"running", "pending", "queued"} =>
              ~AskedReason /\ last.ret = Some(MonitorMsg(last.st[1]))
        /\ last.st[1] = "failed" =>
              /\ AskedReason
              /\ last.res = "ok" =>
                    last.ret = Some(ServerMsg(format_double_escaped(RawReason)))

(* C5: block_until_complete leaves its loop only on a status read of "done"
   or "failed"; once the handle holds "cancelled" the call ends by the
   timeout error only, so without a timeout it does not end. *)
C5_CancelledDoesNotUnblock ==
    /\ (last.op = "block" /\ last.res = "ok") =>
          last.st[1] \in {"done", "failed"} /\ last.retHandle = last.h
    /\ (last.op = "block" /\ last.res # "pending" /\ LastPost._status = "cancelled") =>
          last.res = "RuntimeError" /\ last.timeout # None

C5_Witness ==
    /\ last.op = "block" /\ last.res = "RuntimeError"
    /\ LastPost._status = "cancelled"
    /\ RunOf(last.h).status = "cancelled"

(* C6, as claimed: the timeout error comes after more than timeout_s and
   no later than wait_s after the deadline. *)
C6_WithinOneInterval ==
    (last.op = "block" /\ last.res = "RuntimeError") =>
        /\ last.elapsed > last.timeout[1]
        /\ last.elapsed <= last.timeout[1] + wait_s

(* C6, amended: the timeout error is raised at the first check after a
   sleep at which more than timeout_s has elapsed: never before timeout_s
   has elapsed, and within one loop iteration (the status read and the
   sleep of wait_s) of the last check inside the deadline; the loop never
   goes on from a check made after the deadline. *)
C6_TimeoutAtFirstLateCheck ==
    /\ (last.op = "block" /\ last.res = "RuntimeError") =>
          /\ last.elapsed > last.timeout[1]
          /\ last.prev <= last.timeout[1]
          /\ last.elapsed - last.prev <= wait_s + MaxLatency
    /\ (call.kind = "block" /\ call.timeout_s # None) =>
          call.prev <= call.timeout_s[1]

C6_Witness ==
    /\ last.op = "block" /\ last.res = "RuntimeError"
    /\ LastPost._status = "running"
    /\ last.elapsed > last.timeout[1] + wait_s

(* C7: block_until_complete and monitor send no cancel, resubmit or
   submission request: every request of theirs is a GET, and the step that
   raises the timeout error sends none. *)
C7_WaitLoopsOnlyRead ==
    last.op \in {"block", "monitor"} =>
        /\ \A i \in 1..Len(last.calls) :
              /\ last.calls[i].method = "GET"
              /\ last.calls[i] \in {StatusReq(LastPre.id), TaskReq(LastPre.id),
                                    MetricsReq, TimeZoneReq}
        /\ last.res = "RuntimeError" => last.calls = <<>>

C7_Witness ==
    /\ last.op = "block" /\ last.res = "RuntimeError"
    /\ RunOf(last.h).status = "running"
    /\ last.calls = <<>>

\* run() was given neither input_data nor both geometry and time_range
InvalidArgs(a) == a.input_data = None /\ (a.geometry = None \/ a.time_range = None)

(* C3: run() without input_data and without a complete geometry/time_range
   pair raises the invalid-argument error before any request is sent. *)
C3_ValueErrorBeforeAnyRequest ==
    (last.op = "run" /\ InvalidArgs(last.args[1])) =>
        last.res = "ValueError" /\ last.calls = <<>>

\* the spatio-temporal envelope of a geometry and a time range
Envelope(geometry, time_range) ==
    [start_date |-> time_range[1], end_date |-> time_range[2],
     geojson |-> [type |-> "FeatureCollection",
                  features |-> <<[type |-> "Feature",
                                  geometry |-> [mapping |-> geometry]]>>]]

(* C4: the payload's user input is the serialized input_data whenever
   input_data is given; else the envelope of time_range[0], time_range[1]
   and the one-feature collection of the geometry when both are given; else
   the build fails with the invalid-argument error and gives no payload. *)
C4_UserInputSource ==
    last.op = "_form_payload" =>
        LET a == last.args[1]
        IN /\ a.input_data # None =>
                 /\ last.res = "ok"
                 /\ last.payload[1].user_input = [serialized |-> a.input_data[1]]
           /\ (a.input_data = None /\ a.geometry # None /\ a.time_range # None) =>
                 /\ last.res = "ok"
                 /\ last.payload[1].user_input =
                        Envelope(a.geometry[1], a.time_range[1])
           /\ InvalidArgs(a) => last.res = "ValueError" /\ last.payload = None

C4_Witness ==
    /\ last.op = "_form_payload"
    /\ last.args[1].input_data # None
    /\ last.args[1].geometry # None /\ last.args[1].time_range # None
    /\ last.payload[1].user_input = [serialized |-> last.args[1].input_data[1]]

\* how many of the last step's requests were r
CountCalls(r) == Cardinality({i \in 1..Len(last.calls) : last.calls[i] = r})

(* C9: resubmit() sends one resubmit request for the handle's identifier
   and returns a new handle for the identifier the server allocated; the
   handle it was called on keeps its identifier, name, workflow, parameters
   and caches. *)
C9_ResubmitLeavesOriginal ==
    (last.op = "resubmit" /\ last.res = "ok") =>
        /\ CountCalls(ResubmitReq(LastPre.id)) = 1
        /\ \A i \in 1..Len(last.calls) :
              last.calls[i].method = "POST" => last.calls[i] = ResubmitReq(LastPre.id)
        /\ last.retHandle # last.h
        /\ handles[last.retHandle].id # LastPre.id
        /\ handles[last.retHandle].id = Len(runs)
        /\ LastPost = LastPre

C9_Witness ==
    /\ last.op = "resubmit" /\ last.res = "ok"
    /\ LastPre._status = "failed"
    /\ handles[last.retHandle]._status = "pending"
    /\ handles[last.retHandle].id = 2
    /\ LastPost = LastPre

(* C11: a `task_details` read returns the cached mapping without a request
   exactly when an earlier read cached it; a read that finds no cache reads
   `status`, fetches the task details by identifier, and caches the mapping
   it returns exactly when the status it read was finished; nothing but a
   `task_details` read (also the one inside `task_status`) fills the cache. *)
C11_TaskDetailsCaching ==
    /\ (last.op \in {"task_details", "task_status"} /\ last.res = "ok") =>
          /\ LastPre._task_details # None =>
                /\ last.calls = <<>>
                /\ LastPost = LastPre
                /\ last.op = "task_details" => last.ret = LastPre._task_details
          /\ LastPre._task_details = None =>
                /\ last.st # None
                /\ last.calls = IF finished(LastPre._status)
                                THEN <<TaskReq(LastPre.id)>>
                                ELSE <<StatusReq(LastPre.id), TaskReq(LastPre.id)>>
                /\ LastPost._task_details # None <=> finished(last.st[1])
                /\ (LastPost._task_details # None /\ last.op = "task_details") =>
                      LastPost._task_details = last.ret
    /\ (last.pre # None /\ last.op \notin {"task_details", "task_status"}) =>
          LastPost._task_details = LastPre._task_details

C11_Witness ==
    /\ last.op = "task_details" /\ last.res = "ok"
    /\ LastPre._task_details # None
    /\ last.calls = <<>>
    /\ last.ret = LastPre._task_details

\* the tasks of a returned mapping are in ascending order of submission
\* timestamp, the ones without a timestamp after all the others
MissingLast(m) ==
    \A i, j \in 1..Len(m) :
        i < j =>
            /\ m[i].submission_time = None => m[j].submission_time = None
            /\ (m[i].submission_time # None /\ m[j].submission_time # None) =>
                  m[i].submission_time[1] <= m[j].submission_time[1]

(* C12: the mapping a `task_details` read returns lists the tasks in
   ascending order of submission timestamp, every task without a timestamp
   after every task with one, whatever the current time is. *)
C12_MissingTimestampLast ==
    (last.op = "task_details" /\ last.res = "ok") => MissingLast(last.ret[1])

(* C13: monitor leaves its loop exactly when, after an iteration's sleep, the
   status read is finished or the timeout given (in minutes) is exceeded by
   the time elapsed; after the loop it makes one more status/task-details
   read and display and returns, and when the loop ended on a finished
   status that display shows this status without asking the server for it. *)
C13_MonitorStops ==
    /\ (last.op = "monitor" /\ last.pc = "sleep" /\ last.res = "pending") =>
          /\ call.kind = "monitor" /\ call.pc \in {"update", "final"}
          /\ call.pc = "final" <=>
                \/ finished(last.st[1])
                \/ /\ last.timeout # None
                   /\ last.elapsed > SecondsPerMinute * last.timeout[1]
    /\ (last.op = "monitor" /\ last.pc = "update" /\ last.res = "pending") =>
          call.kind = "monitor" /\ call.pc = "sleep"
    /\ (call.kind = "monitor" /\ call.pc = "final") =>
          last.op = "monitor" /\ last.pc = "sleep"
    /\ (last.op = "monitor" /\ last.pc = "final") =>
          /\ call = NoCall
          /\ (last.res = "ok" /\ finished(LastPre._status)) =>
                /\ last.ret[1].status = LastPre._status
                /\ \A i \in 1..Len(last.calls) :
                      last.calls[i] # StatusReq(LastPre.id)

C13_Witness ==
    /\ last.op = "monitor" /\ last.pc = "final" /\ last.res = "ok"
    /\ last.timeout # None
    /\ last.elapsed > SecondsPerMinute * last.timeout[1]
    /\ last.ret[1].status = "running"

\* the body of the last response as the transport carries it on: parsed, or
\* its text when it does not parse
CarriedBody ==
    IF json_loads(last.args[1].text).res = "ok"
    THEN json_loads(last.args[1].text).v ELSE Str(last.args[1].text)

\* the last response's body is a mapping with a `message` field
HasMessage ==
    /\ CarriedBody.type = "dict"
    /\ \E i \in 1..Len(CarriedBody.items) : CarriedBody.items[i][1] = "message"

\* the last response has a 4xx/5xx status
IsErrorStatus == last.args[1].code \in 400..599

(* C14, as claimed: on a 4xx/5xx status the transport raises the error whose
   message is the HTTP error text followed by the body's `message` field
   when the parsed body is a mapping with one, and by the parsed body in
   every other case; on a success status it returns the parsed body, or the
   text when it does not parse. *)
C14_RawBodyOtherwise ==
    last.op = "_request" =>
        /\ IsErrorStatus =>
              /\ last.res = "HTTPError"
              /\ last.ret[1].e[1] = last.args[1].code
              /\ HasMessage => last.ret[1].error_message = Str("m")
              /\ ~HasMessage => last.ret[1].error_message = CarriedBody
        /\ ~IsErrorStatus => last.res = "ok" /\ last.ret = Some(CarriedBody)

(* C14, amended: on a 4xx/5xx status the message is the HTTP error text
   followed by the `message` field of a mapping that has one, by the empty
   text for a mapping without one, and by the parsed body (or the unparsed
   text) when the body is no mapping; on a success status the transport
   returns the parsed body, or the text when it does not parse. *)
C14_EmptyForMappingWithoutMessage ==
    last.op = "_request" =>
        /\ IsErrorStatus =>
              /\ last.res = "HTTPError"
              /\ last.ret[1].e[1] = last.args[1].code
              /\ HasMessage => last.ret[1].error_message = Str("m")
              /\ (CarriedBody.type = "dict" /\ ~HasMessage) =>
                    last.ret[1].error_message = Str("")
              /\ CarriedBody.type # "dict" => last.ret[1].error_message = CarriedBody
        /\ ~IsErrorStatus => last.res = "ok" /\ last.ret = Some(CarriedBody)

C14_Witness ==
    /\ last.op = "_request" /\ last.res = "HTTPError"
    /\ last.args[1].text = "{'detail': 'd'}"
    /\ last.ret[1].error_message = Str("")

\* the handle operations that send requests
HandleOps == {"status", "task_details", "task_status", "output", "reason", "cancel", "resubmit"}

(* C15, as claimed: a handle operation that ends in a transport error leaves
   the handle's cached status, task_details and output as they were. *)
C15_FailureLeavesCaches ==
    (last.op \in HandleOps /\ last.res = "HTTPError") =>
        /\ LastPost._status = LastPre._status
        /\ LastPost._task_details = LastPre._task_details
        /\ LastPost._output = LastPre._output

(* C15, amended: no handle operation sends a request twice; one that ends
   in a transport error leaves the cached task_details and output as they
   were, and the cached status too unless the request that failed was the
   second one of `task_details`, `task_status` or `reason`: then the status
   fetched by the status read before it stays cached. *)
C15_FailureKeepsOnlyStatusRead ==
    last.op \in HandleOps =>
        /\ \A i, j \in 1..Len(last.calls) : i # j => last.calls[i] # last.calls[j]
        /\ last.res = "HTTPError" =>
              /\ last.calls # <<>>
              /\ LastPost._task_details = LastPre._task_details
              /\ LastPost._output = LastPre._output
              /\ \/ LastPost._status = LastPre._status
                 \/ /\ last.op \in {"task_details", "task_status", "reason"}
                    /\ last.calls[1] = StatusReq(LastPre.id) /\ Len(last.calls) = 2
                    /\ last.st # None /\ LastPost._status = last.st[1]

C15_Witness ==
    /\ last.op = "task_details" /\ last.res = "HTTPError"
    /\ last.calls = <<StatusReq(LastPre.id), TaskReq(LastPre.id)>>
    /\ LastPre._status = "pending" /\ LastPost._status = "failed"
    /\ LastPost._task_details = None

\* the steps that evaluate verify_disk_space
ChecksDisk ==
    \/ last.op \in {"run", "resubmit"}
    \/ last.op = "monitor" /\ last.pc = "sleep"

\* the last step has sent request r
Sent(r) == \E i \in 1..Len(last.calls) : last.calls[i] = r

(* C16: the low-disk-space warning is raised exactly when the metrics query
   reports a free space below the threshold, and it ends no call: run() and
   resubmit() go on to their POST and return the handle when their requests
   succeed, and monitor goes on looping unless the run is finished or the
   timeout exceeded. *)
C16_LowDiskOnlyWarns ==
    ChecksDisk =>
        /\ last.warned <=>
              /\ last.disk_free # None /\ last.disk_free[1] # None
              /\ last.disk_free[1][1] < DISK_FREE_THRESHOLD_BYTES
        /\ last.warned =>
              /\ last.res \in {"ok", "pending", "HTTPError", "ValueError"}
              /\ (last.op = "run" /\ ~InvalidArgs(last.args[1])) => Sent(SubmitReq)
              /\ last.op = "resubmit" => Sent(ResubmitReq(LastPre.id))
              /\ (last.op \in {"run", "resubmit"} /\ last.res = "ok") =>
                    /\ last.retHandle = Len(handles)
                    /\ handles[last.retHandle].id = Len(runs)
              /\ (last.op = "monitor" /\ last.res = "pending") =>
                    /\ call.kind = "monitor"
                    /\ call.pc = "update" <=>
                          ~stop_monitoring(last.st[1], last.elapsed, last.timeout)

C16_Witness ==
    /\ last.op = "monitor" /\ last.pc = "sleep" /\ last.warned
    /\ call.kind = "monitor" /\ call.pc = "update" /\ call.warnings = 1
    /\ handles[last.h].id = 2
    /\ LastPost._status = "running"

(* C17: of the seven RunStatus values, `finished` holds of "done", "failed"
   and "cancelled" and of no other, in both of its definitions; a `status`
   read accordingly asks the server exactly when the cached status is one
   of "pending", "queued", "running", "cancelling". *)
C17_FinishedStatuses ==
    /\ Cardinality(RunStatus) = 7
    /\ \A s \in RunStatus :
          /\ finished(s) <=> s \in {"done", "failed", "cancelled"}
          /\ ~finished(s) <=> s \in {"pending", "queued", "running", "cancelling"}
          /\ RunConfigUser_finished(s) <=> finished(s)
    /\ last.op = "status" =>
          (last.calls # <<>> <=>
              LastPre._status \in {"pending", "queued", "running", "cancelling"})

C17_Witness ==
    /\ last.op = "status" /\ last.res = "ok"
    /\ LastPre._status = "cancelling" /\ LastPost._status = "cancelled"
    /\ last.calls = <<StatusReq(LastPre.id)>>
    /\ ~finished(LastPre._status) /\ RunConfigUser_finished(LastPost._status)

\* a step leaves alone every handle but the one it is an operation of
OnlyOwnHandle == \A g \in Hs : g # last'.h => handles'[g] = handles[g]

(* C18: two handles for one identifier share no cache: an operation on one
   leaves the other's cached status, task_details and output as they were,
   in every interleaving; and once both hold a finished status, they hold
   the same one. *)
C18_HandlesIndependent ==
    /\ [][OnlyOwnHandle]_vars
    /\ [](\A g, h \in Hs :
            (handles[g].id = handles[h].id /\ finished(handles[g]._status)
                /\ finished(handles[h]._status)) =>
                    handles[g]._status = handles[h]._status)

C18_Witness ==
    /\ last.op = "task_details" /\ last.h = 2 /\ last.res = "ok"
    /\ handles[1].id = handles[2].id
    /\ handles[1]._status = "queued" /\ handles[1]._task_details = None
    /\ handles[2]._status = "done" /\ handles[2]._task_details # None

(* C19, as claimed: a successful run() sends one submission POST and right
   after it yields the handle made of the identifier the server assigned
   and of the caller's own name, workflow and parameters, with status
   "pending" and empty caches. *)
C19_HandleFromArguments ==
    (last.op = "run" /\ last.res = "ok") =>
        /\ CountCalls(SubmitReq) = 1
        /\ last.calls[Len(last.calls)] = SubmitReq
        /\ handles[last.retHandle].id = Len(runs)
        /\ handles[last.retHandle].name = last.args[1].name
        /\ handles[last.retHandle].workflow = last.args[1].workflow
        /\ handles[last.retHandle].parameters = last.args[1].parameters
        /\ handles[last.retHandle]._status = "pending"
        /\ handles[last.retHandle]._task_details = None
        /\ handles[last.retHandle]._output = None

(* C19, amended: a successful run() sends, after the metrics query, one
   submission POST and then one listing request for the identifier the
   server assigned, and yields the handle made of what the listing returned:
   that identifier and the run's name, workflow and parameters as the
   server holds them (the submitted ones, a workflow given as JSON text in
   its parsed form), with status "pending" and empty caches; a run() whose
   POST was sent and that does not succeed raises the transport error and
   yields no handle. *)
C19_HandleFromListing ==
    /\ (last.op = "run" /\ last.res = "ok") =>
          LET hn == handles[last.retHandle]
          IN /\ last.calls = <<MetricsReq, SubmitReq, GetRunReq(hn.id)>>
             /\ hn.id = Len(runs)
             /\ hn.name = runs[hn.id].name /\ hn.name = last.args[1].name
             /\ hn.workflow = runs[hn.id].workflow
             /\ hn.workflow = RunBase_post_init(last.args[1].workflow)
             /\ hn.parameters = runs[hn.id].parameters
             /\ hn.parameters = last.args[1].parameters
             /\ hn._status = "pending"
             /\ hn._task_details = None /\ hn._output = None
    /\ (last.op = "run" /\ last.res # "ok" /\ Sent(SubmitReq)) =>
          last.res = "HTTPError" /\ last.retHandle = 0

C19_Witness ==
    /\ last.op = "run" /\ last.res = "ok"
    /\ last.calls = <<MetricsReq, SubmitReq, GetRunReq(2)>>
    /\ handles[last.retHandle].id = 2
    /\ handles[last.retHandle].workflow # last.args[1].workflow
    /\ handles[last.retHandle]._status = "pending"

(* C20: once a handle's cached status is finished it stays what it is: no
   handle operation asks the server for the run's status again or changes
   the cached value, whatever the server answers. *)
C20_FinishedStatusImmutable ==
    /\ \A h \in Hs : observed[h] # None => handles[h]._status = observed[h][1]
    /\ (last.op \in HandleOps /\ finished(LastPre._status)) =>
          /\ LastPost._status = LastPre._status
          /\ ~Sent(StatusReq(LastPre.id)) /\ ~Sent(DescribeReq(LastPre.id))

(* C21: an iteration of monitor runs the disk-space check exactly when more
   than the warning refresh interval has passed since the last check (since
   the start of the loop before the first one), and the check sets that
   time to the iteration's time; so no check runs within the first
   interval and two checks in a row are more than an interval apart. *)
C21_WarningRefresh ==
    (last.op = "monitor" /\ last.pc = "sleep") =>
        /\ Sent(MetricsReq) <=>
              last.elapsed - last.prev >
                  SecondsPerMinute * last.args[1].refresh_warnings_time_min
        /\ CountCalls(MetricsReq) <= 1
        /\ Sent(MetricsReq) =>
              last.elapsed > SecondsPerMinute * last.args[1].refresh_warnings_time_min
        /\ last.res = "pending" =>
              call.last_warning_refresh =
                  IF Sent(MetricsReq) THEN last.elapsed ELSE last.prev

C21_Witness ==
    /\ last.op = "monitor" /\ last.pc = "sleep" /\ last.res = "pending"
    /\ Sent(MetricsReq)
    /\ last.prev > 0
    /\ call.last_warning_refresh = last.elapsed

(* C22: in every state of a handle a filled output cache goes with a cached
   status of exactly "done"; and once the cache is filled an `output` read
   sends no request, returns the cached value and changes nothing. *)
C22_OutputImpliesDone ==
    /\ \A h \in Hs : handles[h]._output # None => handles[h]._status = "done"
    /\ (last.op = "output" /\ LastPre._output # None) =>
          /\ last.calls = <<>>
          /\ last.res = "ok"
          /\ last.ret = LastPre._output
          /\ LastPost = LastPre

C22_Witness ==
    /\ last.op = "output"
    /\ LastPre._output # None
    /\ last.calls = <<>> /\ last.ret = LastPre._output
    /\ LastPost._status = "done"
    /\ RunOf(last.h).status = "failed"

(* C24: in every state of a handle, after any sequence of `status`,
   `task_details`, `task_status`, `output`, `reason` and `cancel`, a filled
   task_details cache goes with a finished cached status. *)
C24_TaskDetailsImpliesFinished ==
    \A h \in Hs : handles[h]._task_details # None => finished(handles[h]._status)

C24_Witness ==
    /\ last.op = "output" /\ last.res = "ok"
    /\ Sent(DescribeReq(LastPre.id))
    /\ LastPre._task_details # None
    /\ LastPost._task_details # None
    /\ LastPost._status = "cancelled"

\* a block_until_complete without timeout is waiting for a run that the
\* server holds as done or failed
WaitingForEndedRun ==
    /\ call.kind = "block" /\ call.timeout_s = None
    /\ RunOf(call.h).status \in {"done", "failed"}

\* the wait is over: it returned the handle, its cached status done or failed
\* (or a request of its failed)
WaitOver ==
    /\ call = NoCall /\ last.op = "block"
    /\ \/ last.res = "HTTPError"
       \/ /\ last.res = "ok" /\ last.retHandle = last.h
          /\ LastPost._status \in {"done", "failed"}

(* C23: a block_until_complete without timeout returns once the server
   holds the run as done or failed (its requests succeeding); it returns
   the handle it was called on, whose cached status is then done or failed;
   and on a run that is done or failed at the first status read it returns
   at once, before any sleep and without the timeout error, whatever
   timeout_s is. *)
C23_BlockReturns ==
    /\ WaitingForEndedRun ~> WaitOver
    /\ []((last.op = "block" /\ last.res = "ok") =>
             /\ last.retHandle = last.h
             /\ LastPost._status \in {"done", "failed"})
    /\ []((last.op = "block" /\ last.pc = "check" /\ last.prev = 0
              /\ last.elapsed < wait_s /\ last.res # "HTTPError"
              /\ last.srv \in {"done", "failed"}) =>
             last.res = "ok" /\ call = NoCall /\ last.retHandle = last.h)

C23_Witness ==
    /\ last.op = "block" /\ last.res = "ok" /\ call = NoCall
    /\ last.timeout = None
    /\ last.elapsed >= 2 * wait_s
    /\ LastPre._status = "running" /\ LastPost._status = "failed"

====
